---- MODULE Spec2Model ----
(***************************************************************************)
(* Model of ex1 (merge_quick_sort.c: merge_sort and quick_sort over an     *)
(* array of references with a caller-supplied comparator) and of ex2       *)
(* (edit_distance.c: the memoized and the table-filling edit distance).    *)
(*                                                                         *)
(* The sorted array holds references.  A reference is the position (1..n)  *)
(* its element had in the caller's array on entry, so that two elements    *)
(* with the same key stay distinguishable; key[r] is the value the         *)
(* comparator reads through reference r.  C indices are kept 0-based.      *)
(***************************************************************************)
EXTENDS Integers, Sequences, FiniteSets, TLC

\* ------------------------------------------------------------------ bounds
MaxN == 4          \* longest array handed to a sort
MaxKey == 3        \* keys are 1..MaxKey
MaxRand == 3       \* rand() returns a value in 0..MaxRand (>= MaxN - 1, so
                   \* that every index of a range can be drawn)
SizeBits == 8      \* width of size_t, scaled down (2^SizeBits > MaxN)
IntBits == 4       \* width of int, scaled down

VARIABLES
    alg,           \* which entry point the caller uses
    base_null,     \* the caller passes base == NULL
    compar_null,   \* the caller passes compar == NULL
    key,           \* key[r]: the value behind reference r (never written)
    base,          \* the caller's array: 0..nitems-1 -> references
    pc,            \* "start", "running", "done" (returned), "exited" (exit())
    stack,         \* activation records of the recursion, innermost last
    scratch,       \* live malloc'ed temp buffers, innermost last
    err,           \* diagnostic written to stderr
    ncompar,       \* number of comparator invocations so far
    seeded,        \* srand() has been called
    ndraws,        \* number of rand() calls so far
    access,        \* indices of base the last step read (rd) and wrote (wr)
    pivots,        \* <<pi, reference>> for every partition that has returned
    s1,            \* first string handed to the edit distance functions
    s2,            \* second string
    ed_result,     \* value returned by edit_distance, -1 before the call
    dyn_result,    \* value returned by edit_distance_dyn, -1 before the call
    dyn_pc,        \* edit_distance_dyn: "idle", "loop" or "done"
    dyn_i,         \* edit_distance_dyn: loop variable i
    dyn_j,         \* edit_distance_dyn: loop variable j
    dyn_memo,      \* edit_distance_dyn: the cells of memo written so far
    cmp_fn,        \* the integer comparator that is called
    cmp_a,         \* the int its first argument points to
    cmp_b,         \* the int its second argument points to
    cmp_pc,        \* "idle", "call", "returned", or "trapped"
    cmp_result     \* the int the comparator returned

cmpvars == <<cmp_fn, cmp_a, cmp_b, cmp_pc, cmp_result>>

edvars == <<s1, s2, ed_result, dyn_result, dyn_pc, dyn_i, dyn_j, dyn_memo>>

sortvars == <<alg, base_null, compar_null, key, base, pc, stack, scratch,
              err, ncompar, seeded, ndraws, access, pivots>>

\* --------------------------------------------------------------- helpers
nitems == Len(key)

\* the array as the caller filled it: reference r at index r-1
Input == [i \in 0..(nitems - 1) |-> i + 1]

\* the comparator: negative, zero or positive
compar_by(k, a, b) == k[a] - k[b]

\* the comparator of the running call: it orders references by key
compar(a, b) == compar_by(key, a, b)

\* mutant: the exchange without the temporary, a[i] is lost
swap_lossy(b, i, j) == [b EXCEPT ![i] = b[j]]

swap(b, i, j) == [b EXCEPT ![i] = b[j], ![j] = b[i]]

\* no index of base is read or written
NoAccess == [rd |-> {}, wr |-> {}]

\* log, after base[k] has been read
LogRead(log, k) == [log EXCEPT !.rd = @ \cup {k}]

\* log, after swap(&base[i], &base[j]): both are read and written
LogSwap(log, i, j) ==
    [rd |-> log.rd \cup {i, j}, wr |-> log.wr \cup {i, j}]

\* mutant: the modulus is one too small, so high itself is never drawn
pivot_index_below_high(low, high, r) ==
    IF high > low THEN low + (r % (high - low)) ELSE low

\* low + (size_t)(rand() % ((int)(high - low + 1))), when rand() returns r
pivot_index(low, high, r) == low + (r % (high - low + 1))

choose_random_pivot(b, low, high, r) ==
    swap(b, pivot_index(low, high, r), high)

\* mutant: an element equal to the pivot is moved below i (<= instead of <)
RECURSIVE partition_loop_le(_, _, _, _, _, _, _, _)
partition_loop_le(k, b, pivot, i, j, high, ncmp, log) ==
    IF j < high
    THEN IF compar_by(k, b[j], pivot) <= 0
         THEN partition_loop_le(k, swap(b, i, j), pivot, i + 1, j + 1,
                                high, ncmp + 1,
                                LogSwap(LogRead(log, j), i, j))
         ELSE partition_loop_le(k, b, pivot, i, j + 1, high,
                                ncmp + 1, LogRead(log, j))
    ELSE [b |-> b, i |-> i, ncmp |-> ncmp, log |-> log]

\* the for loop of partition, from index j on; i is the boundary;
\* ncmp counts the comparator calls, log the indices of b read and written
RECURSIVE partition_loop(_, _, _, _, _, _, _, _)
partition_loop(k, b, pivot, i, j, high, ncmp, log) ==
    IF j < high
    THEN IF compar_by(k, b[j], pivot) < 0
         THEN partition_loop(k, swap(b, i, j), pivot, i + 1, j + 1, high,
                             ncmp + 1, LogSwap(LogRead(log, j), i, j))
         ELSE partition_loop(k, b, pivot, i, j + 1, high,
                             ncmp + 1, LogRead(log, j))
    ELSE [b |-> b, i |-> i, ncmp |-> ncmp, log |-> log]

\* mutant: the pivot is not exchanged into position i after the scan
partition_no_final_swap(k, b, low, high) ==
    LET pivot == b[high]
        r == partition_loop(k, b, pivot, low, low, high, 0,
                            LogRead(NoAccess, high))
    IN  [b |-> r.b, i |-> r.i, ncmp |-> r.ncmp, log |-> r.log]

\* partition(base, low, high, compar); k is the data compar orders by
partition(k, b, low, high) ==
    LET pivot == b[high]
        r == partition_loop(k, b, pivot, low, low, high, 0,
                            LogRead(NoAccess, high))
    IN  [b |-> swap(r.b, r.i, high), i |-> r.i, ncmp |-> r.ncmp,
         log |-> LogSwap(r.log, r.i, high)]

\* quick_sort_rec as a function of the array, when rand() returns r at
\* every draw
RECURSIVE quick_sort_rec(_, _, _, _)
quick_sort_rec(b, low, high, r) ==
    IF low < high
    THEN LET b1 == choose_random_pivot(b, low, high, r)
             p == partition(key, b1, low, high)
             b2 == IF p.i > 0
                   THEN quick_sort_rec(p.b, low, p.i - 1, r)
                   ELSE p.b
         IN  quick_sort_rec(b2, p.i + 1, high, r)
    ELSE b

\* mutant: the merge takes the right element on a tie (< instead of <=)
RECURSIVE merge_loop_strict(_, _, _, _, _, _, _, _)
merge_loop_strict(b, off, n, middle_i, i, j, temp, ncmp) ==
    IF i < middle_i /\ j < n
    THEN IF compar(b[off + i], b[off + j]) < 0
         THEN merge_loop_strict(b, off, n, middle_i, i + 1, j,
                                Append(temp, b[off + i]), ncmp + 1)
         ELSE merge_loop_strict(b, off, n, middle_i, i, j + 1,
                                Append(temp, b[off + j]), ncmp + 1)
    ELSE IF i < middle_i
    THEN merge_loop_strict(b, off, n, middle_i, i + 1, j,
                           Append(temp, b[off + i]), ncmp)
    ELSE IF j < n
    THEN merge_loop_strict(b, off, n, middle_i, i, j + 1,
                           Append(temp, b[off + j]), ncmp)
    ELSE [temp |-> temp, ncmp |-> ncmp]

\* the three while loops of merge on the range b[off .. off+n-1];
\* returns temp (0-based) and the number of comparator calls
RECURSIVE merge_loop(_, _, _, _, _, _, _, _)
merge_loop(b, off, n, middle_i, i, j, temp, ncmp) ==
    IF i < middle_i /\ j < n
    THEN IF compar(b[off + i], b[off + j]) <= 0
         THEN merge_loop(b, off, n, middle_i, i + 1, j,
                         Append(temp, b[off + i]), ncmp + 1)
         ELSE merge_loop(b, off, n, middle_i, i, j + 1,
                         Append(temp, b[off + j]), ncmp + 1)
    ELSE IF i < middle_i
    THEN merge_loop(b, off, n, middle_i, i + 1, j,
                    Append(temp, b[off + i]), ncmp)
    ELSE IF j < n
    THEN merge_loop(b, off, n, middle_i, i, j + 1,
                    Append(temp, b[off + j]), ncmp)
    ELSE [temp |-> temp, ncmp |-> ncmp]

\* mutant: the last slot of the scratch buffer is not copied back
memcpy_short(b, off, temp) ==
    [x \in DOMAIN b |->
        IF x >= off /\ x < off + Len(temp) - 1
        THEN temp[x - off + 1] ELSE b[x]]

\* memcpy(base, temp, nitems * sizeof(void *)) on the range at off
memcpy(b, off, temp) ==
    [x \in DOMAIN b |->
        IF x >= off /\ x < off + Len(temp) THEN temp[x - off + 1] ELSE b[x]]

\* -------------------------------------------------------------- the stack
Top == stack[Len(stack)]
Pop == SubSeq(stack, 1, Len(stack) - 1)
SetTop(f) == [stack EXCEPT ![Len(stack)] = f]
Running(fn, at) ==
    /\ pc = "running"
    /\ stack # <<>>
    /\ Top.fn = fn
    /\ Top.pc = at

\* mutant: a range of one element is partitioned too (<= instead of <)
QuickSortRecurses_one(f) == f.low <= f.high

\* quick_sort_rec: if (low < high)
QuickSortRecurses(f) == f.low < f.high

\* conversion of an index expression to size_t: unsigned, wraps around
SizeT(x) == x % (2 ^ SizeBits)

\* activation record of quick_sort_rec(base, low, high, compar)
QFrame(low, high) ==
    [fn |-> "quick_sort_rec", low |-> SizeT(low), high |-> SizeT(high),
     pi |-> 0, pc |-> "entry"]
MFrame(off, n) ==
    [fn |-> "merge_sort_rec", off |-> off, nitems |-> n, middle_i |-> 0,
     pc |-> "entry"]
MergeFrame(off, n, middle_i) ==
    [fn |-> "merge", off |-> off, nitems |-> n, middle_i |-> middle_i,
     pc |-> "alloc"]

\* ------------------------------------------------------------------- Init
Keys == UNION {[1..n -> 1..MaxKey] : n \in 0..MaxN}

Init ==
    /\ alg \in {"merge_sort", "quick_sort"}
    /\ base_null \in BOOLEAN
    /\ compar_null \in BOOLEAN
    /\ key \in Keys
    /\ base = Input
    /\ pc = "start"
    /\ stack = <<>>
    /\ scratch = <<>>
    /\ err = "none"
    /\ ncompar = 0
    /\ seeded = FALSE
    /\ ndraws = 0
    /\ access = NoAccess
    /\ pivots = {}
    /\ s1 = <<>>
    /\ s2 = <<>>
    /\ ed_result = -1
    /\ dyn_result = -1
    /\ dyn_pc = "idle"
    /\ dyn_i = 0
    /\ dyn_j = 0
    /\ dyn_memo = <<>>
    /\ cmp_fn = "none"
    /\ cmp_a = 0
    /\ cmp_b = 0
    /\ cmp_pc = "idle"
    /\ cmp_result = 0

\* ------------------------------------------------------------- quick_sort
\* mutant: only base is checked against NULL
QuickSort_no_compar_check ==
    /\ pc = "start"
    /\ alg = "quick_sort"
    /\ IF base_null
       THEN /\ err' = "InvalidArgument"
            /\ pc' = "done"
            /\ UNCHANGED <<stack, seeded>>
       ELSE IF nitems > 0
       THEN /\ seeded' = TRUE
            /\ stack' = <<QFrame(0, nitems - 1)>>
            /\ pc' = "running"
            /\ err' = err
       ELSE /\ pc' = "done"
            /\ UNCHANGED <<stack, seeded, err>>
    /\ access' = NoAccess
    /\ pivots' = pivots
    /\ UNCHANGED <<cmpvars, edvars, alg, base_null, compar_null, key, base,
                   scratch, ncompar, ndraws>>

QuickSort ==
    /\ pc = "start"
    /\ alg = "quick_sort"
    /\ IF base_null \/ compar_null
       THEN /\ err' = "InvalidArgument"
            /\ pc' = "done"
            /\ UNCHANGED <<stack, seeded>>
       ELSE IF nitems > 0
       THEN /\ seeded' = TRUE
            /\ stack' = <<QFrame(0, nitems - 1)>>
            /\ pc' = "running"
            /\ err' = err
       ELSE /\ pc' = "done"
            /\ UNCHANGED <<stack, seeded, err>>
    /\ access' = NoAccess
    /\ pivots' = pivots
    /\ UNCHANGED <<cmpvars, edvars, alg, base_null, compar_null, key, base,
                   scratch, ncompar, ndraws>>

\* quick_sort_rec with low >= high: nothing to do
QuickSortRecBase ==
    /\ Running("quick_sort_rec", "entry")
    /\ ~QuickSortRecurses(Top)
    /\ stack' = Pop
    /\ access' = NoAccess
    /\ pivots' = pivots
    /\ UNCHANGED <<cmpvars, edvars, alg, base_null, compar_null, key, base,
                   pc, scratch, err, ncompar, seeded, ndraws>>

ChooseRandomPivot ==
    /\ Running("quick_sort_rec", "entry")
    /\ QuickSortRecurses(Top)
    /\ \E r \in 0..MaxRand :
          /\ base' = choose_random_pivot(base, Top.low, Top.high, r)
          /\ access' = LogSwap(NoAccess,
                               pivot_index(Top.low, Top.high, r), Top.high)
    /\ ndraws' = ndraws + 1
    /\ stack' = SetTop([Top EXCEPT !.pc = "partition"])
    /\ pivots' = pivots
    /\ UNCHANGED <<cmpvars, edvars, alg, base_null, compar_null, key, pc,
                   scratch, err, ncompar, seeded>>

Partition ==
    /\ Running("quick_sort_rec", "partition")
    /\ LET r == partition(key, base, Top.low, Top.high)
       IN  /\ base' = r.b
           /\ ncompar' = ncompar + r.ncmp
           /\ stack' = SetTop([Top EXCEPT !.pi = r.i, !.pc = "left"])
           /\ access' = r.log
           /\ pivots' = pivots \cup {<<r.i, r.b[r.i]>>}
    /\ UNCHANGED <<cmpvars, edvars, alg, base_null, compar_null, key, pc,
                   scratch, err, seeded, ndraws>>

\* mutant: the left call is made without a guard
QuickSortCallsLeft_always(f) == TRUE

\* mutant: the left call is guarded by pi > low
QuickSortCallsLeft_low(f) == f.pi > f.low

\* quick_sort_rec: if (pi > 0)
QuickSortCallsLeft(f) == f.pi > 0

\* mutant: the left recursive call includes the pivot position
QuickSortRecLeft_with_pivot ==
    /\ Running("quick_sort_rec", "left")
    /\ IF QuickSortCallsLeft(Top)
       THEN stack' = Append(SetTop([Top EXCEPT !.pc = "right"]),
                            QFrame(Top.low, Top.pi))
       ELSE stack' = SetTop([Top EXCEPT !.pc = "right"])
    /\ access' = NoAccess
    /\ pivots' = pivots
    /\ UNCHANGED <<cmpvars, edvars, alg, base_null, compar_null, key, base,
                   pc, scratch, err, ncompar, seeded, ndraws>>

\* if (pi > 0) quick_sort_rec(base, low, pi - 1, compar);
QuickSortRecLeft ==
    /\ Running("quick_sort_rec", "left")
    /\ IF QuickSortCallsLeft(Top)
       THEN stack' = Append(SetTop([Top EXCEPT !.pc = "right"]),
                            QFrame(Top.low, Top.pi - 1))
       ELSE stack' = SetTop([Top EXCEPT !.pc = "right"])
    /\ access' = NoAccess
    /\ pivots' = pivots
    /\ UNCHANGED <<cmpvars, edvars, alg, base_null, compar_null, key, base,
                   pc, scratch, err, ncompar, seeded, ndraws>>

\* mutant: the right recursive call starts one position too far
QuickSortRecRight_skip ==
    /\ Running("quick_sort_rec", "right")
    /\ stack' = Append(SetTop([Top EXCEPT !.pc = "ret"]),
                       QFrame(Top.pi + 2, Top.high))
    /\ access' = NoAccess
    /\ pivots' = pivots
    /\ UNCHANGED <<cmpvars, edvars, alg, base_null, compar_null, key, base,
                   pc, scratch, err, ncompar, seeded, ndraws>>

\* quick_sort_rec(base, pi + 1, high, compar);
QuickSortRecRight ==
    /\ Running("quick_sort_rec", "right")
    /\ stack' = Append(SetTop([Top EXCEPT !.pc = "ret"]),
                       QFrame(Top.pi + 1, Top.high))
    /\ access' = NoAccess
    /\ pivots' = pivots
    /\ UNCHANGED <<cmpvars, edvars, alg, base_null, compar_null, key, base,
                   pc, scratch, err, ncompar, seeded, ndraws>>

QuickSortRecReturn ==
    /\ Running("quick_sort_rec", "ret")
    /\ stack' = Pop
    /\ access' = NoAccess
    /\ pivots' = pivots
    /\ UNCHANGED <<cmpvars, edvars, alg, base_null, compar_null, key, base,
                   pc, scratch, err, ncompar, seeded, ndraws>>

\* ------------------------------------------------------------- merge_sort
\* mutant: an empty array is rejected like a null one
MergeSort_reject_empty ==
    /\ pc = "start"
    /\ alg = "merge_sort"
    /\ IF base_null \/ compar_null \/ nitems = 0
       THEN /\ err' = "InvalidArgument"
            /\ pc' = "done"
            /\ stack' = stack
       ELSE IF nitems >= 2
       THEN /\ stack' = <<MFrame(0, nitems)>>
            /\ pc' = "running"
            /\ err' = err
       ELSE /\ pc' = "done"
            /\ UNCHANGED <<stack, err>>
    /\ access' = NoAccess
    /\ pivots' = pivots
    /\ UNCHANGED <<cmpvars, edvars, alg, base_null, compar_null, key, base,
                   scratch, ncompar, seeded, ndraws>>

MergeSort ==
    /\ pc = "start"
    /\ alg = "merge_sort"
    /\ IF base_null \/ compar_null
       THEN /\ err' = "InvalidArgument"
            /\ pc' = "done"
            /\ stack' = stack
       ELSE IF nitems >= 2
       THEN /\ stack' = <<MFrame(0, nitems)>>
            /\ pc' = "running"
            /\ err' = err
       ELSE /\ pc' = "done"
            /\ UNCHANGED <<stack, err>>
    /\ access' = NoAccess
    /\ pivots' = pivots
    /\ UNCHANGED <<cmpvars, edvars, alg, base_null, compar_null, key, base,
                   scratch, ncompar, seeded, ndraws>>

\* merge_sort_rec with nitems <= 1: nothing to do
MergeSortRecBase ==
    /\ Running("merge_sort_rec", "entry")
    /\ ~(Top.nitems > 1)
    /\ stack' = Pop
    /\ access' = NoAccess
    /\ pivots' = pivots
    /\ UNCHANGED <<cmpvars, edvars, alg, base_null, compar_null, key, base,
                   pc, scratch, err, ncompar, seeded, ndraws>>

\* middle_i = nitems / 2; merge_sort_rec(base, middle_i, compar);
MergeSortRecLeft ==
    /\ Running("merge_sort_rec", "entry")
    /\ Top.nitems > 1
    /\ LET middle_i == Top.nitems \div 2
       IN  stack' = Append(SetTop([Top EXCEPT !.middle_i = middle_i,
                                              !.pc = "right"]),
                           MFrame(Top.off, middle_i))
    /\ access' = NoAccess
    /\ pivots' = pivots
    /\ UNCHANGED <<cmpvars, edvars, alg, base_null, compar_null, key, base,
                   pc, scratch, err, ncompar, seeded, ndraws>>

\* mutant: the right half is merged without having been sorted
MergeSortRecRight_unsorted ==
    /\ Running("merge_sort_rec", "right")
    /\ stack' = SetTop([Top EXCEPT !.pc = "merge"])
    /\ access' = NoAccess
    /\ pivots' = pivots
    /\ UNCHANGED <<cmpvars, edvars, alg, base_null, compar_null, key, base,
                   pc, scratch, err, ncompar, seeded, ndraws>>

\* merge_sort_rec(base + middle_i, nitems - middle_i, compar);
MergeSortRecRight ==
    /\ Running("merge_sort_rec", "right")
    /\ stack' = Append(SetTop([Top EXCEPT !.pc = "merge"]),
                       MFrame(Top.off + Top.middle_i,
                              Top.nitems - Top.middle_i))
    /\ access' = NoAccess
    /\ pivots' = pivots
    /\ UNCHANGED <<cmpvars, edvars, alg, base_null, compar_null, key, base,
                   pc, scratch, err, ncompar, seeded, ndraws>>

\* merge(base, nitems, middle_i, compar);
MergeSortRecMerge ==
    /\ Running("merge_sort_rec", "merge")
    /\ stack' = Append(SetTop([Top EXCEPT !.pc = "ret"]),
                       MergeFrame(Top.off, Top.nitems, Top.middle_i))
    /\ access' = NoAccess
    /\ pivots' = pivots
    /\ UNCHANGED <<cmpvars, edvars, alg, base_null, compar_null, key, base,
                   pc, scratch, err, ncompar, seeded, ndraws>>

MergeSortRecReturn ==
    /\ Running("merge_sort_rec", "ret")
    /\ stack' = Pop
    /\ access' = NoAccess
    /\ pivots' = pivots
    /\ UNCHANGED <<cmpvars, edvars, alg, base_null, compar_null, key, base,
                   pc, scratch, err, ncompar, seeded, ndraws>>

\* void **temp = malloc(...) succeeds
MergeAlloc ==
    /\ Running("merge", "alloc")
    /\ scratch' = Append(scratch, [len |-> Top.nitems, data |-> <<>>])
    /\ stack' = SetTop([Top EXCEPT !.pc = "fill"])
    /\ access' = NoAccess
    /\ pivots' = pivots
    /\ UNCHANGED <<cmpvars, edvars, alg, base_null, compar_null, key, base,
                   pc, err, ncompar, seeded, ndraws>>

\* mutant: the process ends on a failed malloc without the message
MergeAllocFail_silent ==
    /\ Running("merge", "alloc")
    /\ pc' = "exited"
    /\ access' = NoAccess
    /\ pivots' = pivots
    /\ UNCHANGED <<cmpvars, edvars, alg, base_null, compar_null, key, base,
                   stack, scratch, err, ncompar, seeded, ndraws>>

\* malloc returns NULL: message on stderr, exit(EXIT_FAILURE)
MergeAllocFail ==
    /\ Running("merge", "alloc")
    /\ err' = "OutOfMemory"
    /\ pc' = "exited"
    /\ access' = NoAccess
    /\ pivots' = pivots
    /\ UNCHANGED <<cmpvars, edvars, alg, base_null, compar_null, key, base,
                   stack, scratch, ncompar, seeded, ndraws>>

\* the three while loops filling temp
MergeFill ==
    /\ Running("merge", "fill")
    /\ LET r == merge_loop(base, Top.off, Top.nitems, Top.middle_i,
                           0, Top.middle_i, <<>>, 0)
       IN  /\ scratch' = [scratch EXCEPT ![Len(scratch)].data = r.temp]
           /\ ncompar' = ncompar + r.ncmp
    /\ stack' = SetTop([Top EXCEPT !.pc = "copy"])
    /\ access' = [rd |-> Top.off .. (Top.off + Top.nitems - 1), wr |-> {}]
    /\ pivots' = pivots
    /\ UNCHANGED <<cmpvars, edvars, alg, base_null, compar_null, key, base,
                   pc, err, seeded, ndraws>>

\* mutant: merge returns without free(temp)
MergeCopyBack_leak ==
    /\ Running("merge", "copy")
    /\ base' = memcpy(base, Top.off, scratch[Len(scratch)].data)
    /\ scratch' = scratch
    /\ stack' = Pop
    /\ access' = [rd |-> {}, wr |-> Top.off .. (Top.off + Top.nitems - 1)]
    /\ pivots' = pivots
    /\ UNCHANGED <<cmpvars, edvars, alg, base_null, compar_null, key, pc,
                   err, ncompar, seeded, ndraws>>

\* memcpy(base, temp, ...); free(temp); return
MergeCopyBack ==
    /\ Running("merge", "copy")
    /\ base' = memcpy(base, Top.off, scratch[Len(scratch)].data)
    /\ scratch' = SubSeq(scratch, 1, Len(scratch) - 1)
    /\ stack' = Pop
    /\ access' = [rd |-> {}, wr |-> Top.off .. (Top.off + Top.nitems - 1)]
    /\ pivots' = pivots
    /\ UNCHANGED <<cmpvars, edvars, alg, base_null, compar_null, key, pc,
                   err, ncompar, seeded, ndraws>>

\* the outermost recursive call has returned: the sort returns
SortReturn ==
    /\ pc = "running"
    /\ stack = <<>>
    /\ pc' = "done"
    /\ access' = NoAccess
    /\ pivots' = pivots
    /\ UNCHANGED <<cmpvars, edvars, alg, base_null, compar_null, key, base,
                   stack, scratch, err, ncompar, seeded, ndraws>>

SortNext ==
    \/ QuickSort
    \/ QuickSortRecBase
    \/ ChooseRandomPivot
    \/ Partition
    \/ QuickSortRecLeft
    \/ QuickSortRecRight
    \/ QuickSortRecReturn
    \/ MergeSort
    \/ MergeSortRecBase
    \/ MergeSortRecLeft
    \/ MergeSortRecRight
    \/ MergeSortRecMerge
    \/ MergeSortRecReturn
    \/ MergeAlloc
    \/ MergeAllocFail
    \/ MergeFill
    \/ MergeCopyBack
    \/ SortReturn

\* ========================================================== edit distance
MAXLEN == 1000     \* edit_distance.c: #define MAXLEN
MaxStrLen == 3     \* longest generated string
Alphabet == {"a", "b", "c"}

Strings == UNION {[1..n -> Alphabet] : n \in 0..MaxStrLen}

\* the pairs test_ex2.c runs
TestPairs ==
    { <<<<"c","a","s","a">>, <<"c","a","s","s","a">>>>,
      <<<<"c","a","s","a">>, <<"c","a","r","a">>>>,
      <<<<"v","i","n","a","i","o">>, <<"v","i","n","o">>>>,
      <<<<"t","a","s","s","a">>, <<"p","a","s","s","a","t","o">>>>,
      <<<<"p","i","o","p","p","o">>, <<"p","i","o","p","p","o">>>> }

min(a, b) == IF a < b THEN a ELSE b

strlen(s) == Len(s)

\* memo[i][j] = v
MemoSet(memo, i, j, v) == [memo EXCEPT ![<<i, j>>] = v]

\* p1, p2: how far the pointers s1, s2 have been advanced; the character
\* the code reads as s1[0] is str1[p1 + 1] here.  Returns the value and the
\* memo table as the call leaves it.
RECURSIVE edit_distance_recursive(_, _, _, _, _, _, _)
edit_distance_recursive(str1, str2, p1, p2, len1, len2, memo) ==
    IF memo[<<len1, len2>>] # -1
    THEN [val |-> memo[<<len1, len2>>], memo |-> memo]
    ELSE IF len1 = 0 THEN [val |-> len2, memo |-> memo]
    ELSE IF len2 = 0 THEN [val |-> len1, memo |-> memo]
    ELSE IF str1[p1 + 1] = str2[p2 + 1]
    THEN LET r == edit_distance_recursive(str1, str2, p1 + 1, p2 + 1,
                                          len1 - 1, len2 - 1, memo)
         IN  [val |-> r.val,
              memo |-> MemoSet(r.memo, len1, len2, r.val)]
    ELSE LET ins == edit_distance_recursive(str1, str2, p1, p2 + 1,
                                            len1, len2 - 1, memo)
             del == edit_distance_recursive(str1, str2, p1 + 1, p2,
                                            len1 - 1, len2, ins.memo)
             v == min(1 + ins.val, 1 + del.val)
         IN  [val |-> v, memo |-> MemoSet(del.memo, len1, len2, v)]

\* mutant: the memo table is cleared to 0 instead of -1
edit_distance_zero_memo(str1, str2) ==
    LET len1 == strlen(str1)
        len2 == strlen(str2)
        memo == [c \in (0..len1) \X (0..len2) |-> 0]
    IN  edit_distance_recursive(str1, str2, 0, 0, len1, len2, memo).val

edit_distance(str1, str2) ==
    LET len1 == strlen(str1)
        len2 == strlen(str2)
        memo == [c \in (0..len1) \X (0..len2) |-> -1]
    IN  edit_distance_recursive(str1, str2, 0, 0, len1, len2, memo).val

\* mutant: a substitution is allowed at cost 1 (Levenshtein distance)
dyn_cell_subst(str1, str2, i, j, memo) ==
    IF i = 0 THEN j
    ELSE IF j = 0 THEN i
    ELSE IF str1[i] = str2[j] THEN memo[<<i - 1, j - 1>>]
    ELSE 1 + min(memo[<<i - 1, j - 1>>],
                 min(memo[<<i - 1, j>>], memo[<<i, j - 1>>]))

\* the value edit_distance_dyn stores into memo[i][j]; memo holds the cells
\* written so far
dyn_cell(str1, str2, i, j, memo) ==
    IF i = 0 THEN j
    ELSE IF j = 0 THEN i
    ELSE IF str1[i] = str2[j] THEN memo[<<i - 1, j - 1>>]
    ELSE 1 + min(memo[<<i - 1, j>>], memo[<<i, j - 1>>])

InitED ==
    /\ alg = "none"
    /\ base_null = FALSE
    /\ compar_null = FALSE
    /\ key = <<>>
    /\ base = Input
    /\ pc = "start"
    /\ stack = <<>>
    /\ scratch = <<>>
    /\ err = "none"
    /\ ncompar = 0
    /\ seeded = FALSE
    /\ ndraws = 0
    /\ access = NoAccess
    /\ pivots = {}
    /\ \/ s1 \in Strings /\ s2 \in Strings
       \/ \E p \in TestPairs : s1 = p[1] /\ s2 = p[2]
    /\ strlen(s1) <= MAXLEN
    /\ strlen(s2) <= MAXLEN
    /\ ed_result = -1
    /\ dyn_result = -1
    /\ dyn_pc = "idle"
    /\ dyn_i = 0
    /\ dyn_j = 0
    /\ dyn_memo = <<>>
    /\ cmp_fn = "none"
    /\ cmp_a = 0
    /\ cmp_b = 0
    /\ cmp_pc = "idle"
    /\ cmp_result = 0

\* edit_distance(s1, s2), as test_ex2.c calls it before edit_distance_dyn
EditDistance ==
    /\ ed_result = -1
    /\ ed_result' = edit_distance(s1, s2)
    /\ UNCHANGED <<cmpvars, sortvars, s1, s2, dyn_result, dyn_pc, dyn_i,
                   dyn_j, dyn_memo>>

\* edit_distance_dyn is entered: i = 0, j = 0, memo holds nothing yet
EditDistanceDynEnter ==
    /\ ed_result # -1
    /\ dyn_pc = "idle"
    /\ dyn_pc' = "loop"
    /\ dyn_i' = 0
    /\ dyn_j' = 0
    /\ dyn_memo' = <<>>
    /\ UNCHANGED <<cmpvars, sortvars, s1, s2, ed_result, dyn_result>>

\* one pass through the body of the inner for loop, then ++j, and ++i with
\* j = 0 when the inner loop ends
EditDistanceDynCell ==
    /\ dyn_pc = "loop"
    /\ dyn_i <= strlen(s1)
    /\ dyn_memo' = (<<dyn_i, dyn_j>> :>
                       dyn_cell(s1, s2, dyn_i, dyn_j, dyn_memo)) @@ dyn_memo
    /\ IF dyn_j + 1 <= strlen(s2)
       THEN dyn_j' = dyn_j + 1 /\ dyn_i' = dyn_i
       ELSE dyn_j' = 0 /\ dyn_i' = dyn_i + 1
    /\ UNCHANGED <<cmpvars, sortvars, s1, s2, ed_result, dyn_result, dyn_pc>>

\* return memo[len1][len2];
EditDistanceDynReturn ==
    /\ dyn_pc = "loop"
    /\ ~(dyn_i <= strlen(s1))
    /\ dyn_result' = dyn_memo[<<strlen(s1), strlen(s2)>>]
    /\ dyn_pc' = "done"
    /\ UNCHANGED <<cmpvars, sortvars, s1, s2, ed_result, dyn_i, dyn_j,
                   dyn_memo>>

NextED ==
    \/ EditDistance
    \/ EditDistanceDynEnter
    \/ EditDistanceDynCell
    \/ EditDistanceDynReturn

\* ------------------------------------------------- the integer comparators
INT_MIN == -(2 ^ (IntBits - 1))
INT_MAX == 2 ^ (IntBits - 1) - 1
Ints == INT_MIN..INT_MAX

\* the difference a - b of two ints is not representable as an int
Overflows(a, b) == (a - b) \notin Ints

\* x reduced modulo 2^IntBits into the range of int
WrapInt(x) == ((x - INT_MIN) % (2 ^ IntBits)) + INT_MIN

\* return *(int *)int1 - *(int *)int2;
compar_int(a, b) == WrapInt(a - b)

\* int rec1_p = ...->integer_field; int rec2_p = ...; return rec1_p - rec2_p;
comparator_record_integer_field(a, b) == WrapInt(a - b)

InitCmp ==
    /\ alg = "none"
    /\ base_null = FALSE
    /\ compar_null = FALSE
    /\ key = <<>>
    /\ base = Input
    /\ pc = "start"
    /\ stack = <<>>
    /\ scratch = <<>>
    /\ err = "none"
    /\ ncompar = 0
    /\ seeded = FALSE
    /\ ndraws = 0
    /\ access = NoAccess
    /\ pivots = {}
    /\ s1 = <<>>
    /\ s2 = <<>>
    /\ ed_result = -1
    /\ dyn_result = -1
    /\ dyn_pc = "idle"
    /\ dyn_i = 0
    /\ dyn_j = 0
    /\ dyn_memo = <<>>
    /\ cmp_fn \in {"compar_int", "comparator_record_integer_field"}
    /\ cmp_a \in Ints
    /\ cmp_b \in Ints
    /\ cmp_pc = "call"
    /\ cmp_result = 0

\* compar_int(&a, &b) returns; when a - b overflows, the build that wraps
\* returns the difference modulo 2^IntBits
ComparInt ==
    /\ cmp_pc = "call"
    /\ cmp_fn = "compar_int"
    /\ cmp_result' = compar_int(cmp_a, cmp_b)
    /\ cmp_pc' = "returned"
    /\ UNCHANGED <<sortvars, edvars, cmp_fn, cmp_a, cmp_b>>

\* comparator_record_integer_field(r1, r2) returns, likewise
ComparatorRecordIntegerField ==
    /\ cmp_pc = "call"
    /\ cmp_fn = "comparator_record_integer_field"
    /\ cmp_result' = comparator_record_integer_field(cmp_a, cmp_b)
    /\ cmp_pc' = "returned"
    /\ UNCHANGED <<sortvars, edvars, cmp_fn, cmp_a, cmp_b>>

\* signed overflow is undefined: the build that traps on it ends the
\* process at the subtraction
SignedOverflowTrap ==
    /\ cmp_pc = "call"
    /\ Overflows(cmp_a, cmp_b)
    /\ cmp_pc' = "trapped"
    /\ UNCHANGED <<sortvars, edvars, cmp_fn, cmp_a, cmp_b, cmp_result>>

NextCmp ==
    \/ ComparInt
    \/ ComparatorRecordIntegerField
    \/ SignedOverflowTrap

vars == <<sortvars, edvars, cmpvars>>
Next == SortNext
Spec == Init /\ [][Next]_vars
SpecED == InitED /\ [][NextED]_vars
SpecCmp == InitCmp /\ [][NextCmp]_vars

FairSpec == Spec /\ WF_vars(Next)

TypeOK ==
    /\ pc \in {"start", "running", "done", "exited"}
    /\ err \in {"none", "InvalidArgument", "OutOfMemory"}
    /\ DOMAIN base = 0..(nitems - 1)

\* ================================================================= claims
ValidArgs == alg \in {"merge_sort", "quick_sort"} /\ ~base_null /\ ~compar_null
NullArgs == alg \in {"merge_sort", "quick_sort"} /\ (base_null \/ compar_null)
Returned == pc = "done"

IsPermutation(b) ==
    /\ DOMAIN b = 0..(nitems - 1)
    /\ {b[k] : k \in DOMAIN b} = 1..nitems

\* b[from .. to] is non-decreasing under the comparator
SortedRange(b, from, to) ==
    \A k \in from..(to - 1) : compar(b[k], b[k + 1]) <= 0

Sorted(b) == SortedRange(b, 0, nitems - 1)

\* C1: when merge_sort or quick_sort returns from a call with a sequence and
\* a comparator, the array is a permutation of the input references and is
\* non-decreasing under the comparator, whatever pivots were drawn.
C1_SortedPermutation ==
    (ValidArgs /\ Returned) => (IsPermutation(base) /\ Sorted(base))

C1_Witness ==
    /\ ValidArgs /\ Returned
    /\ alg = "quick_sort"
    /\ nitems >= 3
    /\ ~Sorted(Input)
    /\ ndraws >= 2
    /\ Sorted(base)

\* C2: merge_sort is stable: references whose elements compare equal are in
\* the output in the order they had in the input (a reference is its input
\* position, so input order is the order of the references).
C2_MergeSortStable ==
    (ValidArgs /\ Returned /\ alg = "merge_sort") =>
        \A x, y \in DOMAIN base :
            (x < y /\ compar(base[x], base[y]) = 0) => base[x] < base[y]

C2_Witness ==
    /\ ValidArgs /\ Returned /\ alg = "merge_sort"
    /\ base # Input
    /\ \E x, y \in DOMAIN base :
          /\ x < y
          /\ compar(base[x], base[y]) = 0
          /\ base[y] - base[x] >= 2

\* C3: a call with a null sequence or a null comparator is rejected at
\* entry: it never enters the recursion, never calls the comparator, never
\* seeds or draws from the random source, never changes the caller's array,
\* and it returns with the invalid-argument diagnostic.
C3_NullRejected ==
    NullArgs =>
        /\ pc \in {"start", "done"}
        /\ stack = <<>>
        /\ scratch = <<>>
        /\ ncompar = 0
        /\ ~seeded
        /\ ndraws = 0
        /\ base = Input
        /\ (pc = "done") <=> (err = "InvalidArgument")
        /\ (pc = "start") <=> (err = "none")

C3_Witness ==
    /\ NullArgs /\ Returned
    /\ compar_null /\ ~base_null
    /\ alg = "quick_sort"
    /\ nitems >= 2
    /\ err = "InvalidArgument"

\* C4 as stated: every call with nitems = 0 or 1 returns without an error
\* outcome, without a comparator call and with the array unchanged.
C4_Original ==
    (alg \in {"merge_sort", "quick_sort"} /\ nitems <= 1) =>
        /\ err = "none"
        /\ ncompar = 0
        /\ base = Input
        /\ pc # "exited"

\* C4 amended: every call with a non-null sequence and a non-null comparator
\* and nitems = 0 or 1 is a no-op that reports success: no diagnostic, no
\* comparator call, no scratch buffer, the array unchanged.
C4_SmallIsNoOp ==
    (ValidArgs /\ nitems <= 1) =>
        /\ err = "none"
        /\ ncompar = 0
        /\ scratch = <<>>
        /\ base = Input
        /\ pc # "exited"

C4_Witness ==
    /\ ValidArgs /\ Returned
    /\ alg = "quick_sort"
    /\ nitems = 1
    /\ seeded
    /\ err = "none"

\* C5 as stated: on an input that is already non-decreasing both sorts return
\* with the same reference at every position.
C5_Original ==
    (ValidArgs /\ Returned /\ Sorted(Input)) => base = Input

\* C5 amended: on an input that is already non-decreasing merge_sort returns
\* with the same reference at every position; quick_sort returns a
\* permutation in which every position holds a reference that compares equal
\* to the one it held before (so the identical sequence when no two elements
\* compare equal).
C5_Idempotent ==
    (ValidArgs /\ Returned /\ Sorted(Input)) =>
        /\ alg = "merge_sort" => base = Input
        /\ alg = "quick_sort" =>
              /\ IsPermutation(base)
              /\ \A k \in DOMAIN base : compar(base[k], Input[k]) = 0

C5_Witness ==
    /\ ValidArgs /\ Returned /\ Sorted(Input)
    /\ alg = "quick_sort"
    /\ nitems >= 3
    /\ base # Input

\* the run of quick_sort in which rand() returns 0 at every draw
ReferenceRun ==
    IF nitems > 0 THEN quick_sort_rec(Input, 0, nitems - 1, 0) ELSE Input

\* C6 as stated: whatever pivot indices are drawn, quick_sort ends with the
\* same reference at every position (here: the same as the run in which
\* every draw is 0).
C6_Original ==
    (ValidArgs /\ Returned /\ alg = "quick_sort") => base = ReferenceRun

\* C6 amended: whatever pivot indices are drawn, quick_sort ends with, at
\* every position, a reference that compares equal to the one any other run
\* ends with there (the same reference when no two elements compare equal).
C6_SeedIndependent ==
    (ValidArgs /\ Returned /\ alg = "quick_sort") =>
        /\ DOMAIN base = DOMAIN ReferenceRun
        /\ \A k \in DOMAIN base : compar(base[k], ReferenceRun[k]) = 0

C6_Witness ==
    /\ ValidArgs /\ Returned /\ alg = "quick_sort"
    /\ nitems >= 3
    /\ ndraws >= 2
    /\ base # ReferenceRun

\* number of elements of the range an activation record of a recursive sort
\* function works on
RangeSize(f) ==
    IF f.fn = "quick_sort_rec"
    THEN IF f.high >= f.low THEN f.high - f.low + 1 ELSE 0
    ELSE f.nitems

IsRec(f) == f.fn \in {"quick_sort_rec", "merge_sort_rec"}

\* every recursive call works on a strictly smaller range than its caller,
\* and only a range of size > 1 makes a recursive call
RangesShrink ==
    \A k \in 1..(Len(stack) - 1) :
        (IsRec(stack[k]) /\ IsRec(stack[k + 1])) =>
            /\ RangeSize(stack[k]) > 1
            /\ RangeSize(stack[k + 1]) < RangeSize(stack[k])

\* C7 as stated: every call with valid arguments eventually returns.
C7_Original == ValidArgs => <>(pc = "done")

\* C7 amended: every call with valid arguments eventually returns or, when a
\* scratch allocation of merge fails, ends at that merge's exit(); every
\* recursive range is strictly smaller than its caller's, and only ranges of
\* size > 1 recurse.
C7_Terminates ==
    /\ []RangesShrink
    /\ ValidArgs =>
          <>(pc = "done" \/ (pc = "exited" /\ err = "OutOfMemory"
                                /\ alg = "merge_sort"))

C7_Witness ==
    /\ ValidArgs /\ Returned
    /\ nitems >= 3
    /\ ncompar >= nitems
    /\ stack = <<>>

\* C8: when a scratch allocation fails, the sort stops at that merge with the
\* out-of-memory diagnostic and that merge has written nothing: the array is
\* still a permutation of the input and both sub-ranges of the failed merge
\* are still sorted and unmerged; the failing step itself leaves the array
\* as it was.
C8_AllocFailure ==
    /\ [](pc = "exited" =>
            /\ err = "OutOfMemory"
            /\ alg = "merge_sort"
            /\ scratch = <<>>
            /\ IsPermutation(base)
            /\ Top.fn = "merge" /\ Top.pc = "alloc"
            /\ SortedRange(base, Top.off, Top.off + Top.middle_i - 1)
            /\ SortedRange(base, Top.off + Top.middle_i,
                           Top.off + Top.nitems - 1))
    /\ [][pc' = "exited" => (base' = base /\ pc = "running")]_vars
    /\ [][pc = "exited" => UNCHANGED vars]_vars

C8_Witness ==
    /\ pc = "exited"
    /\ err = "OutOfMemory"
    /\ Top.nitems >= 3
    /\ base # Input
    /\ ~SortedRange(base, Top.off, Top.off + Top.nitems - 1)

\* ---------------------------------------------------------- edit distance
\* the elements of str at the positions in S, in order, from position k on
RECURSIVE SelectFrom(_, _, _)
SelectFrom(str, S, k) ==
    IF k > Len(str) THEN <<>>
    ELSE (IF k \in S THEN <<str[k]>> ELSE <<>>) \o SelectFrom(str, S, k + 1)

Subsequences(str) == {SelectFrom(str, S, 1) : S \in SUBSET (1..Len(str))}

\* t[x..] can be read off str[y..] by deleting characters
RECURSIVE IsSubsequenceFrom(_, _, _, _)
IsSubsequenceFrom(t, str, x, y) ==
    IF x > Len(t) THEN TRUE
    ELSE IF y > Len(str) THEN FALSE
    ELSE IF t[x] = str[y] THEN IsSubsequenceFrom(t, str, x + 1, y + 1)
    ELSE IsSubsequenceFrom(t, str, x, y + 1)

\* length of a longest common subsequence
LCS(a, b) ==
    LET common == {Len(t) : t \in {u \in Subsequences(a) :
                                      IsSubsequenceFrom(u, b, 1, 1)}}
    IN  CHOOSE m \in common : \A l \in common : l <= m

\* the values test_ex2.c expects
Expected(a, b) ==
    IF a = <<"c","a","s","a">> /\ b = <<"c","a","s","s","a">> THEN 1
    ELSE IF a = <<"c","a","s","a">> /\ b = <<"c","a","r","a">> THEN 2
    ELSE IF a = <<"v","i","n","a","i","o">> /\ b = <<"v","i","n","o">> THEN 2
    ELSE IF a = <<"t","a","s","s","a">>
            /\ b = <<"p","a","s","s","a","t","o">> THEN 4
    ELSE IF a = b THEN 0
    ELSE -1

\* C9: edit_distance_dyn returns len(s1) + len(s2) - 2 * LCS(s1, s2), the
\* least number of single-character insertions and deletions turning s1 into
\* s2; it is 0 exactly when s1 = s2, and it is 1 for casa/cassa, 2 for
\* casa/cara, 2 for vinaio/vino and 4 for tassa/passato.
C9_DynIsIndelDistance ==
    dyn_pc = "done" =>
        /\ dyn_result = Len(s1) + Len(s2) - 2 * LCS(s1, s2)
        /\ (dyn_result = 0) <=> (s1 = s2)
        /\ Expected(s1, s2) # -1 => dyn_result = Expected(s1, s2)

C9_Witness ==
    /\ dyn_pc = "done"
    /\ s1 = <<"t","a","s","s","a">>
    /\ s2 = <<"p","a","s","s","a","t","o">>
    /\ dyn_result = 4

PartitionPost(b, low, high, p) ==
    /\ low <= p.i /\ p.i <= high
    /\ p.b[p.i] = b[high]
    /\ \A k \in low..(p.i - 1) : compar(p.b[k], b[high]) < 0
    /\ \A k \in (p.i + 1)..high : compar(p.b[k], b[high]) >= 0
    /\ \A ref \in 1..nitems :
          Cardinality({k \in low..high : p.b[k] = ref})
              = Cardinality({k \in low..high : b[k] = ref})

\* C11: for every call partition(base, low, high) with low <= high, the
\* returned index i is in [low, high], base[i] holds the pivot (the reference
\* at base[high] on entry), every element of [low, i) compares < 0 against
\* the pivot, every element of (i, high] compares >= 0 against it, and the
\* range holds the same multiset of references as on entry.  Stated for
\* every range of every input array (the references of an input are
\* numbered in array order, so the key assignments give every array up to
\* the names of the references), and for the partition steps the sort takes.
C11_PartitionPost ==
    /\ []((ValidArgs /\ pc = "start") =>
            \A low \in DOMAIN base : \A high \in DOMAIN base :
                low <= high =>
                    PartitionPost(base, low, high,
                                  partition(key, base, low, high)))
    /\ [][Running("quick_sort_rec", "partition") =>
            PartitionPost(base, Top.low, Top.high,
                          [b |-> base', i |-> Top'.pi])]_vars

C11_Witness ==
    /\ Running("quick_sort_rec", "left")
    /\ Top.low < Top.pi /\ Top.pi < Top.high
    /\ \E k \in (Top.pi + 1)..Top.high : compar(base[k], base[Top.pi]) = 0
    /\ \E k \in (Top.pi + 1)..Top.high : compar(base[k], base[Top.pi]) > 0

\* the arrangements of n references in an array of n slots
Arrangements(n) ==
    {b \in [0..(n - 1) -> 1..n] : \A x, y \in 0..(n - 1) : b[x] = b[y] => x = y}

\* partition(k, b, low, high) leaves an element equal to the pivot below i
EqualBelow(k, b, low, high) ==
    LET p == partition(k, b, low, high)
    IN  \E x \in low..(p.i - 1) : compar_by(k, p.b[x], p.b[p.i]) = 0

\* partition(k, b, low, high) leaves an element equal to the pivot above i
EqualAbove(k, b, low, high) ==
    LET p == partition(k, b, low, high)
    IN  \E x \in (p.i + 1)..high : compar_by(k, p.b[x], p.b[p.i]) = 0

\* C12 as stated: an element equal to the pivot may end on either side of
\* i, that is, among the inputs of the partition of quick_sort (every key
\* assignment, arrangement and range within the bounds) some input leaves
\* one below i and some input leaves one above i.
C12_Original ==
    alg = "quick_sort" =>
        /\ \E k \in Keys : \E b \in Arrangements(Len(k)) :
              \E low \in DOMAIN b : \E high \in DOMAIN b :
                  low <= high /\ EqualBelow(k, b, low, high)
        /\ \E k \in Keys : \E b \in Arrangements(Len(k)) :
              \E low \in DOMAIN b : \E high \in DOMAIN b :
                  low <= high /\ EqualAbove(k, b, low, high)

\* C12: after partition returns the pivot position i, no element of the range
\* that compares equal to the pivot is at an index below i: every such
\* element other than the pivot itself is at an index above i.  Stated for
\* every range of every input array and for the partition steps the sort
\* takes.
C12_EqualEndsAbove ==
    /\ []((ValidArgs /\ pc = "start") =>
            \A low \in DOMAIN base : \A high \in DOMAIN base :
                low <= high => ~EqualBelow(key, base, low, high))
    /\ [][Running("quick_sort_rec", "partition") =>
            \A x \in Top.low..Top.high :
                compar(base'[x], base[Top.high]) = 0 => x >= Top'.pi]_vars

C12_Witness ==
    /\ Running("quick_sort_rec", "left")
    /\ Top.pi = Top.low
    /\ Top.high >= Top.low + 2
    /\ \A x \in Top.low..Top.high : compar(base[x], base[Top.pi]) = 0

\* the step pushes a quick_sort_rec call on [low, high] and leaves the
\* caller at position at
CallsQuickSortRec(low, high, at) ==
    /\ Len(stack') = Len(stack) + 1
    /\ Top' = [fn |-> "quick_sort_rec", low |-> low, high |-> high,
               pi |-> 0, pc |-> "entry"]
    /\ SubSeq(stack', 1, Len(stack)) = SetTop([Top EXCEPT !.pc = at])

\* C13 as stated: after partition returns pi, the left recursive call is
\* made only if pi > low, no left call is made when pi = low, and the right
\* recursive call on [pi+1, high] is always made.
C13_Original ==
    /\ [][Running("quick_sort_rec", "left") =>
            /\ Len(stack') > Len(stack) => Top.pi > Top.low
            /\ Top.pi = Top.low => Len(stack') = Len(stack)]_vars
    /\ [][Running("quick_sort_rec", "right") =>
            CallsQuickSortRec(Top.pi + 1, Top.high, "ret")]_vars

\* C13: in quick_sort_rec on [low, high] with low < high, after partition
\* returns pi, the left recursive call on [low, pi-1] is made exactly when
\* pi > 0; when pi = low > 0 it is made on the empty range [low, low-1] and
\* returns at once without touching the array; when pi = 0 no left call is
\* made; the right recursive call on [pi+1, high] is always made.
C13_LeftCallIffPiPositive ==
    /\ [][Running("quick_sort_rec", "left") =>
            /\ Top.low < Top.high
            /\ Top.pi > 0 => CallsQuickSortRec(Top.low, Top.pi - 1, "right")
            /\ Top.pi = 0 => stack' = SetTop([Top EXCEPT !.pc = "right"])]_vars
    /\ [][(Running("quick_sort_rec", "entry") /\ Top.high < Top.low) =>
            (stack' = Pop /\ base' = base)]_vars
    /\ [][Running("quick_sort_rec", "right") =>
            CallsQuickSortRec(Top.pi + 1, Top.high, "ret")]_vars

\* a left call on an empty range: pi = low > 0
C13_Witness ==
    /\ Running("quick_sort_rec", "entry")
    /\ Top.low > 0
    /\ Top.high = Top.low - 1
    /\ Len(stack) >= 2
    /\ stack[Len(stack) - 1].pc = "right"
    /\ stack[Len(stack) - 1].pi = Top.low

\* C14: once a partition step of quick_sort has returned index pi, position
\* pi is never written again by a later step of the same quick_sort call,
\* and the reference stored there at that moment stays there, so it is the
\* one found at position pi when the sort returns.
C14_PivotFinal ==
    /\ [][\A p \in pivots : p[1] \notin access'.wr]_vars
    /\ [](\A p \in pivots : base[p[1]] = p[2])

C14_Witness ==
    /\ alg = "quick_sort"
    /\ Returned
    /\ nitems >= 4
    /\ Cardinality(pivots) >= 3
    /\ \E p \in pivots : p[1] # p[2] - 1

\* the index of reference ref in the array b
Pos(b, ref) == CHOOSE x \in DOMAIN b : b[x] = ref

\* what merge promises about the array b2 it leaves, when called on
\* b[off .. off+n-1] with the sub-ranges [0, middle) and [middle, n) sorted
MergePost(b, off, n, middle, b2) ==
    LET left == off..(off + middle - 1)
        right == (off + middle)..(off + n - 1)
    IN  /\ SortedRange(b2, off, off + n - 1)
        /\ \A ref \in 1..nitems :
              Cardinality({x \in left \cup right : b2[x] = ref})
                  = Cardinality({x \in left \cup right : b[x] = ref})
        /\ \A x, y \in left : x < y => Pos(b2, b[x]) < Pos(b2, b[y])
        /\ \A x, y \in right : x < y => Pos(b2, b[x]) < Pos(b2, b[y])
        /\ \A x \in left : \A y \in right :
              compar(b[x], b[y]) = 0 => Pos(b2, b[x]) < Pos(b2, b[y])

\* the array merge(b + off, n, middle) leaves
MergeResult(b, off, n, middle) ==
    memcpy(b, off, merge_loop(b, off, n, middle, 0, middle, <<>>, 0).temp)

\* C15: whenever merge(base, n, middle) is called with the sub-ranges
\* [0, middle) and [middle, n) each non-decreasing under the comparator, on
\* return [0, n) is non-decreasing and a permutation of its entry content,
\* the relative order inside each sub-range is preserved, and a left element
\* precedes every right element it compares equal to.  Stated for every
\* range and split point of every input array (the references of an input
\* are numbered in array order, so the key assignments give every array up
\* to the names of the references), and for the merge calls merge_sort makes.
C15_MergePost ==
    /\ []((ValidArgs /\ pc = "start") =>
            \A off \in DOMAIN base : \A n \in 1..(nitems - off) :
                \A middle \in 0..n :
                    (/\ SortedRange(base, off, off + middle - 1)
                     /\ SortedRange(base, off + middle, off + n - 1))
                    => MergePost(base, off, n, middle,
                                 MergeResult(base, off, n, middle)))
    /\ [][Running("merge", "copy") =>
            MergePost(base, Top.off, Top.nitems, Top.middle_i, base')]_vars
    /\ [][(Running("merge", "alloc") \/ Running("merge", "fill")) =>
            base' = base]_vars

\* a merge of two halves of two has just returned, with ties across the
\* halves and a right element placed before a left one
C15_Witness ==
    /\ alg = "merge_sort"
    /\ Running("merge_sort_rec", "ret")
    /\ access.wr = 0..3
    /\ key[1] = key[3] /\ key[2] = key[4] /\ key[2] < key[1]
    /\ Pos(base, 4) < Pos(base, 1)
    /\ Pos(base, 1) < Pos(base, 3)

\* C16: a merge of a range of length n >= 2 is invoked only after both
\* recursive sorts of its halves have returned (the caller has passed both
\* calls and nothing is above the merge on the stack), with middle =
\* floor(n/2), so 1 <= middle <= n - middle; from its invocation until it
\* writes the range back, the left sub-range [0, middle) and the right
\* sub-range [middle, n) are each non-decreasing under the comparator.
C16_MergeAfterHalves ==
    \A d \in 1..Len(stack) :
        stack[d].fn = "merge" =>
            LET m == stack[d]
            IN  /\ d = Len(stack)
                /\ d >= 2
                /\ stack[d - 1].fn = "merge_sort_rec"
                /\ stack[d - 1].pc = "ret"
                /\ stack[d - 1].off = m.off
                /\ stack[d - 1].nitems = m.nitems
                /\ stack[d - 1].middle_i = m.middle_i
                /\ m.nitems >= 2
                /\ m.middle_i = m.nitems \div 2
                /\ 1 <= m.middle_i /\ m.middle_i <= m.nitems - m.middle_i
                /\ SortedRange(base, m.off, m.off + m.middle_i - 1)
                /\ SortedRange(base, m.off + m.middle_i,
                               m.off + m.nitems - 1)

\* the merge of an odd range whose halves had to be reordered is invoked
C16_Witness ==
    /\ Running("merge", "alloc")
    /\ Top.nitems = 3 /\ Top.middle_i = 1
    /\ base[Top.off + 1] # Input[Top.off + 1]
    /\ compar(base[Top.off], base[Top.off + 1]) > 0

\* the innermost call is a merge that is past its malloc
InMergeBody ==
    /\ stack # <<>>
    /\ Top.fn = "merge"
    /\ Top.pc \in {"fill", "copy"}

\* C17: at most one scratch buffer is live; a scratch buffer is live exactly
\* while the innermost call is a merge past its allocation, and its length
\* is that merge's range; so none is live while merge_sort_rec itself runs
\* (before, between and after its calls), none survives the return of the
\* merge that allocated it, and none is live when merge_sort returns.
C17_ScratchLifetime ==
    /\ Len(scratch) <= 1
    /\ (scratch # <<>>) <=> InMergeBody
    /\ InMergeBody =>
          /\ scratch[1].len = Top.nitems
          /\ Len(scratch[1].data) \in {0, Top.nitems}
          /\ Top.pc = "copy" => Len(scratch[1].data) = Top.nitems
    /\ Returned => scratch = <<>>

\* the second merge of a call has its scratch buffer filled, after the
\* buffer of the first merge has been released
C17_Witness ==
    /\ Running("merge", "copy")
    /\ Len(scratch) = 1
    /\ scratch[1].len = 2
    /\ Top.off = 2
    /\ Len(scratch[1].data) = 2

\* b2 is b with the references at p and high exchanged and nothing else
\* changed (b itself when p = high)
ExchangesOnly(b, b2, p, high) ==
    /\ DOMAIN b2 = DOMAIN b
    /\ b2[p] = b[high]
    /\ b2[high] = b[p]
    /\ \A x \in DOMAIN b : x \notin {p, high} => b2[x] = b[x]
    /\ p = high => b2 = b

C19_Original ==
    /\ cmp_pc # "trapped"
    /\ cmp_pc = "returned" =>
          /\ (cmp_result < 0) <=> (cmp_a < cmp_b)
          /\ (cmp_result = 0) <=> (cmp_a = cmp_b)
          /\ (cmp_result > 0) <=> (cmp_a > cmp_b)

\* the quick_sort_rec calls in progress, outermost first
QuickSortRecCalls == {d \in 1..Len(stack) : stack[d].fn = "quick_sort_rec"}

\* C20: in quick_sort on N >= 1 elements, whatever the pivots, no index
\* computation wraps around (a call is made with high = pi - 1 only when
\* pi > 0, with high = nitems - 1 only when nitems > 0, and with low =
\* pi + 1 exactly); every quick_sort_rec call has low <= N and high <= N - 1
\* and lies within the range of its caller; and every read or write the
\* pivot selector and the partitioner make inside a call on [low, high] is
\* at an index within [low, high], the positions outside being unchanged.
C20_IndexSafety ==
    /\ [](\A d \in QuickSortRecCalls :
            /\ stack[d].low <= nitems
            /\ stack[d].high <= nitems - 1
            /\ stack[d].low <= stack[d].high + 1
            /\ d > 1 =>
                  /\ stack[d - 1].low <= stack[d].low
                  /\ stack[d].high <= stack[d - 1].high)
    /\ [][(pc = "start" /\ alg = "quick_sort" /\ stack' # <<>>) =>
            (nitems > 0 /\ Top'.low = 0 /\ Top'.high = nitems - 1)]_vars
    /\ [][(Running("quick_sort_rec", "left") /\ Len(stack') > Len(stack)) =>
            (Top.pi > 0 /\ Top'.low = Top.low /\ Top'.high = Top.pi - 1)]_vars
    /\ [][Running("quick_sort_rec", "right") =>
            (Top'.low = Top.pi + 1 /\ Top'.high = Top.high)]_vars
    /\ [][(Running("quick_sort_rec", "entry")
               \/ Running("quick_sort_rec", "partition")) =>
            /\ access'.rd \cup access'.wr \subseteq Top.low..Top.high
            /\ \A x \in DOMAIN base :
                  x \notin Top.low..Top.high => base'[x] = base[x]]_vars

\* after a partition that returned pi = 0 (no left call was made), the
\* partition of an inner range [low, high], 0 < low < high < N - 1, has just
\* returned, having read all of its range and written some of it
C20_Witness ==
    /\ Running("quick_sort_rec", "left")
    /\ Top.low > 0
    /\ Top.high < nitems - 1
    /\ Top.low < Top.high
    /\ access.rd = Top.low..Top.high
    /\ access.wr # {}
    /\ \E p \in pivots : p[1] = 0

====
